---- MODULE Spec2Model ----
(***************************************************************************)
(* Pre2Pub: resolution of a preprint DOI to the DOI of its journal         *)
(* publication (main.py, utils/search.py, utils/similarity.py).            *)
(*                                                                         *)
(* Python strings are sequences of one-character strings, so that split,   *)
(* replace, startswith, lower and the Levenshtein ratio are computed as    *)
(* the code computes them.  Similarity scores are integers in hundredths   *)
(* (0.9 is 90, 0.94 is 94).                                                *)
(***************************************************************************)
EXTENDS Integers, Sequences, FiniteSets, TLC

(***************************************************************************)
(* Python string primitives                                                *)
(***************************************************************************)
Max(a, b) == IF a >= b THEN a ELSE b

Min(a, b) == IF a <= b THEN a ELSE b

\* s[:n]
Prefix(s, n) == SubSeq(s, 1, Min(n, Len(s)))

\* s[i:] with a 1-based i
Suffix(s, i) == SubSeq(s, i, Len(s))

\* s.startswith(p)
StartsWith(s, p) == Len(p) <= Len(s) /\ SubSeq(s, 1, Len(p)) = p

\* s.find(sub): the 1-based index of the first occurrence, 0 when there is none
Find(s, sub) ==
    LET hits == {i \in 1..(Len(s) - Len(sub) + 1) : SubSeq(s, i, i + Len(sub) - 1) = sub}
    IN IF hits = {} THEN 0 ELSE CHOOSE i \in hits : \A j \in hits : i <= j

\* sub in s
Contains(s, sub) == Find(s, sub) # 0

\* s.split(sep) for a non-empty separator
RECURSIVE Split(_, _)
Split(s, sep) ==
    LET i == Find(s, sep)
    IN IF i = 0 THEN <<s>>
       ELSE <<SubSeq(s, 1, i - 1)>> \o Split(Suffix(s, i + Len(sep)), sep)

\* the non-empty members of a list of strings
RECURSIVE NonEmpty(_)
NonEmpty(l) ==
    IF l = <<>> THEN <<>>
    ELSE (IF Head(l) = <<>> THEN <<>> ELSE <<Head(l)>>) \o NonEmpty(Tail(l))

\* s.split() without a separator: runs of blanks separate, no empty words
SplitWs(s) == NonEmpty(Split(s, <<" ">>))

\* sep.join(l)
RECURSIVE Join(_, _)
Join(sep, l) ==
    IF l = <<>> THEN <<>>
    ELSE IF Len(l) = 1 THEN l[1]
    ELSE l[1] \o sep \o Join(sep, Tail(l))

\* s.replace(old, new)
RECURSIVE Replace(_, _, _)
Replace(s, old, new) ==
    LET i == Find(s, old)
    IN IF i = 0 THEN s
       ELSE SubSeq(s, 1, i - 1) \o new \o Replace(Suffix(s, i + Len(old)), old, new)

\* reversed(l)
Reversed(l) == [i \in 1..Len(l) |-> l[Len(l) + 1 - i]]

\* s.count(c) for a one-character c
Count(s, c) == Cardinality({i \in 1..Len(s) : s[i] = c})

UpperCase == <<"A", "B", "C", "D", "E", "F", "G", "H", "I", "J", "K", "L", "M",
               "N", "O", "P", "Q", "R", "S", "T", "U", "V", "W", "X", "Y", "Z">>

LowerCase == <<"a", "b", "c", "d", "e", "f", "g", "h", "i", "j", "k", "l", "m",
               "n", "o", "p", "q", "r", "s", "t", "u", "v", "w", "x", "y", "z">>

\* s.lower()
Lower(s) ==
    [i \in 1..Len(s) |->
        IF \E k \in 1..26 : UpperCase[k] = s[i]
        THEN LowerCase[CHOOSE k \in 1..26 : UpperCase[k] = s[i]]
        ELSE s[i]]

(***************************************************************************)
(* Levenshtein.ratio: (len(a) + len(b) - d) / (len(a) + len(b)), where d   *)
(* counts an insertion or deletion as 1 and a substitution as 2, which is  *)
(* 2 * LCS(a, b) / (len(a) + len(b)); 1 for two empty strings.  The ratio  *)
(* is kept as a fraction.                                                  *)
(***************************************************************************)
RECURSIVE LcsRow(_, _, _, _)
LcsRow(prev, c, b, acc) ==
    LET j == Len(acc)
    IN IF j > Len(b) THEN acc
       ELSE LcsRow(prev, c, b,
                   Append(acc, IF b[j] = c THEN prev[j] + 1
                               ELSE Max(prev[j + 1], acc[j])))

RECURSIVE LcsFold(_, _, _, _)
LcsFold(a, b, i, row) ==
    IF i > Len(a) THEN row[Len(b) + 1]
    ELSE LcsFold(a, b, i + 1, LcsRow(row, a[i], b, <<0>>))

Lcs(a, b) == LcsFold(a, b, 1, [j \in 1..(Len(b) + 1) |-> 0])

lev_ratio(a, b) ==
    IF Len(a) + Len(b) = 0 THEN [num |-> 1, den |-> 1]
    ELSE [num |-> 2 * Lcs(a, b), den |-> Len(a) + Len(b)]

\* max of two fractions
RatioMax(r, s) == IF r.num * s.den >= s.num * r.den THEN r ELSE s

(***************************************************************************)
(* Python values of mixed type (str, list, bool) carry their type          *)
(***************************************************************************)
PyStr(s) == [type |-> "str", val |-> s]

PyList(l) == [type |-> "list", val |-> l]

PyFalse == [type |-> "bool", val |-> FALSE]

PyNone == [type |-> "NoneType", val |-> FALSE]

\* bool(v)
Truthy(v) == IF v.type = "bool" THEN v.val ELSE IF v.type = "NoneType" THEN FALSE ELSE v.val # <<>>

(***************************************************************************)
(* datetime.date and int()                                                 *)
(***************************************************************************)
Digits == <<"0", "1", "2", "3", "4", "5", "6", "7", "8", "9">>

IsDigit(c) == \E k \in 1..10 : Digits[k] = c

DigitVal(c) == (CHOOSE k \in 1..10 : Digits[k] = c) - 1

\* s.strip() for blanks
RECURSIVE Strip(_)
Strip(s) ==
    IF s = <<>> THEN s
    ELSE IF Head(s) = " " THEN Strip(Tail(s))
    ELSE IF s[Len(s)] = " " THEN Strip(SubSeq(s, 1, Len(s) - 1))
    ELSE s

\* int(s) accepts a non-empty run of digits, surrounded by blanks
IsInt(s) == Strip(s) # <<>> /\ \A i \in 1..Len(Strip(s)) : IsDigit(Strip(s)[i])

RECURSIVE DigitsVal(_)
DigitsVal(s) == IF s = <<>> THEN 0 ELSE 10 * DigitsVal(SubSeq(s, 1, Len(s) - 1)) + DigitVal(s[Len(s)])

ToInt(s) == DigitsVal(Strip(s))

\* str(n) for n >= 0
RECURSIVE IntToStr(_)
IntToStr(n) == IF n < 10 THEN <<Digits[n + 1]>> ELSE IntToStr(n \div 10) \o <<Digits[(n % 10) + 1]>>

IsLeap(y) == (y % 4 = 0 /\ y % 100 # 0) \/ y % 400 = 0

DaysInMonth(y, m) ==
    IF m = 2 THEN (IF IsLeap(y) THEN 29 ELSE 28)
    ELSE IF m \in {4, 6, 9, 11} THEN 30 ELSE 31

\* date(y, m, d) raises ValueError outside the calendar
IsDate(y, m, d) == y \in 1..9999 /\ m \in 1..12 /\ d >= 1 /\ d <= DaysInMonth(y, m)

\* date a < date b
DateLess(a, b) ==
    \/ a[1] < b[1]
    \/ a[1] = b[1] /\ a[2] < b[2]
    \/ a[1] = b[1] /\ a[2] = b[2] /\ a[3] < b[3]

\* string literals of the program
NA == <<"N", "A">>

API_ERROR == <<"A", "P", "I", " ", "c", "o", "n", "n", "e", "c", "t", "i", "o", "n", " ", "e", "r", "r", "o", "r", ".", " ", "P", "l", "e", "a", "s", "e", " ", "t", "r", "y", " ", "a", "g", "a", "i", "n", " ", "l", "a", "t", "e", "r", ".">>

DOI_URL == <<"h", "t", "t", "p", "s", ":", "/", "/", "d", "o", "i", ".", "o", "r", "g", "/">>

PUBMED_URL == <<"h", "t", "t", "p", "s", ":", "/", "/", "p", "u", "b", "m", "e", "d", ".", "n", "c", "b", "i", ".", "n", "l", "m", ".", "n", "i", "h", ".", "g", "o", "v", "/">>

(***************************************************************************)
(* utils/search.py                                                         *)
(***************************************************************************)
\* retmax=5, the default of esearch_pmids
retmax == 5

\* line 45: date(int(date_converted[0]), int(date_converted[1]), int(date_converted[2])),
\* or the exception of the first part that is missing or is not a number
date_of_parts(date_converted) ==
    LET bad == {k \in 1..3 : Len(date_converted) < k \/ ~IsInt(date_converted[k])}
        first_bad == CHOOSE k \in bad : \A j \in bad : k <= j
        y == ToInt(date_converted[1])
        m == ToInt(date_converted[2])
        d == ToInt(date_converted[3])
    IN IF bad # {}
       THEN [exc |-> IF Len(date_converted) < first_bad THEN "IndexError" ELSE "ValueError"]
       ELSE IF ~IsDate(y, m, d) THEN [exc |-> "ValueError"]
       ELSE [exc |-> "none", val |-> <<y, m, d>>]

\* the value of convert_date, or the exception it raises
convert_date(date_) ==
    IF Contains(date_, <<"/">>) THEN date_of_parts(Split(Prefix(date_, 10), <<"/">>))
    ELSE IF Contains(date_, <<"-">>) THEN date_of_parts(Split(Prefix(date_, 10), <<"-">>))
    ELSE [exc |-> "UnboundLocalError"]

\* the value of check_crossref for a response of get_publication_as_json
\* (the request raises, or returns a record), or the exception it raises
check_crossref(response) ==
    LET crossref == response.json
    IN
    IF response.raises # "none" THEN [exc |-> "none", val |-> PyFalse]
    ELSE IF "relation" \in DOMAIN crossref
    THEN IF "is-preprint-of" \in DOMAIN crossref["relation"]
         THEN LET crossref_ids == crossref["relation"]["is-preprint-of"]
                  dois == {i \in 1..Len(crossref_ids) : crossref_ids[i]["id-type"] = "doi"}
                  first == CHOOSE i \in dois : \A j \in dois : i <= j
              IN IF dois # {} THEN [exc |-> "none", val |-> PyStr(crossref_ids[first]["id"])]
                 ELSE IF crossref_ids # <<>> THEN [exc |-> "none", val |-> PyFalse]
                 ELSE [exc |-> "UnboundLocalError"]
         ELSE [exc |-> "none", val |-> PyFalse]
    ELSE [exc |-> "UnboundLocalError"]

\* the value of check_bio_med_rxiv for a response of the server
check_bio_med_rxiv(response) ==
    IF response.raises # "none" THEN PyFalse
    ELSE IF response.json["collection"] = <<>> THEN PyFalse
    ELSE LET published_info == response.json["collection"][1]["published"]
         IN IF published_info # NA THEN PyStr(published_info) ELSE PyFalse

\* Entrez.esearch: the IdList holds the first retmax hits of the index
Entrez_esearch(hits, retmax_) == Prefix(hits, retmax_)

\* lines 9-28 without retmax
esearch_pmids_unbounded(hits) == hits

esearch_pmids(hits) == Entrez_esearch(hits, retmax)

\* line 151 with the last of the maxima
max_abstract_similarity_last(records) ==
    LET best == {i \in 1..Len(records) :
                    \A j \in 1..Len(records) :
                        records[j].abstract_similarity <= records[i].abstract_similarity}
    IN records[CHOOSE i \in best : \A j \in best : j <= i]

\* max(records, key=lambda m: m["abstract_similarity"]): the first maximum
max_abstract_similarity(records) ==
    LET best == {i \in 1..Len(records) :
                    \A j \in 1..Len(records) :
                        records[j].abstract_similarity <= records[i].abstract_similarity}
    IN records[CHOOSE i \in best : \A j \in best : i <= j]

\* lines 144 and 152: the gate of the abstract check and the acceptance threshold
title_gate == 94

accept_threshold == 90

\* line 144 without its title clause
abstract_gate_by_authors(entry) == entry.author_check

abstract_gate(entry) == entry.author_check \/ entry.title_check > title_gate

\* line 152 with the threshold one hundredth lower
is_accepted_from_089(found_journal) == found_journal.abstract_similarity >= accept_threshold - 1

is_accepted(found_journal) == found_journal.abstract_similarity >= accept_threshold

Unbound == [type |-> "unbound", val |-> FALSE]

\* lines 153-165: published_info of an accepted candidate (Unbound: never assigned)
extract_published_info(article) ==
    IF "AID" \in DOMAIN article
    THEN LET found_via_algorithm == article["AID"]
             dois == {i \in 1..Len(found_via_algorithm) :
                         Contains(found_via_algorithm[i], <<"d", "o", "i">>)}
             first == CHOOSE i \in dois : \A j \in dois : i <= j
             doi == Replace(found_via_algorithm[first], <<" ", "[", "d", "o", "i", "]">>, <<>>)
         IN IF dois # {} THEN PyStr(DOI_URL \o doi)
            ELSE IF found_via_algorithm # <<>> THEN PyList(found_via_algorithm)
            ELSE Unbound
    ELSE PyStr(PUBMED_URL \o article["PMID"])

(***************************************************************************)
(* The services: the Crossref record of the preprint, the preprint server, *)
(* the PubMed index and the sentence encoder                               *)
(***************************************************************************)
John == <<"J", "o", "h", "n">>

Smith == <<"S", "m", "i", "t", "h">>

Mary == <<"M", "a", "r", "y">>

Jones == <<"J", "o", "n", "e", "s">>

Consortium == <<"X", "Y", " ", "C", "o", "n", "s", "o", "r", "t", "i", "u", "m">>

SmithJ == <<"S", "m", "i", "t", "h", " ", "J">>

JonesM == <<"J", "o", "n", "e", "s", " ", "M">>

LeeK == <<"L", "e", "e", " ", "K">>

WuX == <<"W", "u", " ", "X">>

\* the length of the longest hit list of the PubMed index
MaxHits == 6

Article1 ==
    "PMID" :> <<"1">>
    @@ "EDAT" :> <<"2", "0", "2", "1", "/", "0", "1", "/", "1", "0", " ", "0", "6", ":", "0", "0">>
    @@ "TI" :> "T1"
    @@ "AU" :> <<SmithJ, JonesM>>
    @@ "AB" :> "A1"
    @@ "AID" :> <<<<"S", "1", " ", "[", "p", "i", "i", "]">>, <<"1", "0", ".", "1", "/", "a", " ", "[", "d", "o", "i", "]">>>>

Article2 ==
    "PMID" :> <<"2">>
    @@ "EDAT" :> <<"2", "0", "2", "1", "-", "0", "1", "-", "1", "0">>
    @@ "PD" :> <<"2", "0", "2", "1", "-", "0", "2", "-", "0", "1">>
    @@ "TI" :> "T2"
    @@ "AU" :> <<LeeK, WuX>>
    @@ "AB" :> "A2"
    @@ "AID" :> <<<<"1", "0", ".", "1", "/", "b", " ", "[", "d", "o", "i", "]">>, <<"1", "0", ".", "1", "/", "c", " ", "[", "d", "o", "i", "]">>>>

Article3 ==
    "PMID" :> <<"3">>
    @@ "EDAT" :> <<"2", "0", "2", "0", "/", "0", "6", "/", "1", "6", " ", "0", "6", ":", "0", "0">>
    @@ "AU" :> <<SmithJ, JonesM>>
    @@ "AB" :> "A3"
    @@ "AID" :> <<<<"1", "0", ".", "1", "/", "d", " ", "[", "d", "o", "i", "]">>>>

Article4 ==
    "PMID" :> <<"4">>
    @@ "EDAT" :> <<"2", "0", "1", "9", "/", "1", "1", "/", "0", "2", " ", "0", "6", ":", "0", "0">>
    @@ "TI" :> "T4"
    @@ "AU" :> <<JonesM, SmithJ>>
    @@ "AB" :> "A4"

Article5 ==
    "PMID" :> <<"5">>
    @@ "TI" :> "T5"
    @@ "AU" :> <<SmithJ, LeeK, JonesM>>
    @@ "AB" :> "A5"
    @@ "AID" :> <<>>

Article6 ==
    "PMID" :> <<"6">>
    @@ "EDAT" :> <<"2", "0", "2", "1">>
    @@ "TI" :> "T6"
    @@ "AU" :> <<SmithJ, JonesM>>
    @@ "AB" :> "A6"
    @@ "AID" :> <<<<"S", "6", " ", "[", "p", "i", "i", "]">>>>

Article7 ==
    "PMID" :> <<"7">>
    @@ "PD" :> <<"2", "0", "1", "9", "-", "0", "5", "-", "0", "1">>
    @@ "TI" :> "T7"
    @@ "AU" :> <<SmithJ, JonesM>>
    @@ "AID" :> <<<<"1", "0", ".", "1", "/", "e", " ", "[", "d", "o", "i", "]">>>>

Article8 ==
    "PMID" :> <<"8">>
    @@ "EDAT" :> <<"2", "0", "2", "0", "/", "0", "6", "/", "1", "5", " ", "0", "6", ":", "0", "0">>
    @@ "TI" :> "T8"
    @@ "AB" :> "A8"
    @@ "AID" :> <<<<"1", "0", ".", "1", "/", "f", " ", "[", "d", "o", "i", "]">>>>

PubMed == <<Article1, Article2, Article3, Article4, Article5, Article6, Article7, Article8>>

PMIDs == {PubMed[i]["PMID"] : i \in 1..Len(PubMed)}

\* Entrez.efetch / Medline.parse: the record of a pmid
Medline(pmid) == PubMed[CHOOSE i \in 1..Len(PubMed) : PubMed[i]["PMID"] = pmid]

Range(f) == {f[i] : i \in DOMAIN f}

\* the hit lists of the index: lists of distinct records, by position in PubMed
RECURSIVE DistinctSeqs(_)
DistinctSeqs(n) ==
    IF n = 0 THEN {<<>>}
    ELSE UNION {{Append(h, k) : k \in (1..Len(PubMed)) \ Range(h)} : h \in DistinctSeqs(n - 1)}

\* the k smallest members of a set of numbers, in increasing order
RECURSIVE Smallest(_, _)
Smallest(S, k) ==
    IF k = 0 \/ S = {} THEN <<>>
    ELSE LET m == CHOOSE x \in S : \A y \in S : x <= y
         IN <<m>> \o Smallest(S \ {m}, k - 1)

\* every hit list of up to retmax records; a longer one is represented by one
\* continuation of each list of retmax records, since the index cuts its tail
HitLists ==
    UNION {DistinctSeqs(n) : n \in 0..Min(Min(MaxHits, retmax), Len(PubMed))}
    \cup {h \o Smallest((1..Len(PubMed)) \ Range(h), n) :
            h \in DistinctSeqs(Min(retmax, Len(PubMed))), n \in 1..(MaxHits - retmax)}

\* record["IdList"] of a hit list
IdList(h) == [i \in 1..Len(h) |-> PubMed[h[i]]["PMID"]]

\* cosine similarity of the encoder's embeddings, in hundredths
similarity_score ==
    <<"T0", "T1">> :> 95 @@ <<"T0", "T2">> :> 95 @@ <<"T0", "T4">> :> 95 @@ <<"T0", "T5">> :> 94
    @@ <<"T0", "T6">> :> 95 @@ <<"T0", "T7">> :> 95 @@ <<"T0", "T8">> :> 95
    @@ <<"A0", "A1">> :> 92 @@ <<"A0", "A2">> :> 92 @@ <<"A0", "A3">> :> 89 @@ <<"A0", "A4">> :> 97
    @@ <<"A0", "A5">> :> 92 @@ <<"A0", "A6">> :> 90 @@ <<"A0", "A8">> :> 95

\* BioBertSimilarity.calculate_similarity: the text cleaning and the encoder
\* are the oracle similarity_score
calculate_similarity(str1, str2) == similarity_score[<<str1, str2>>]

Servers == {"medrxiv", "other"}

Raises(e) == [raises |-> e, json |-> <<>>]

Returns(j) == [raises |-> "none", json |-> j]

BioRxivResponses ==
    { Raises("ConnectionError"),
      Returns([collection |-> <<>>]),
      Returns([collection |-> <<[published |-> NA]>>]),
      Returns([collection |-> <<[published |-> <<"1", "0", ".", "1", "/", "a">>]>>]) }

DoiEntry == "id" :> <<"1", "0", ".", "1", "/", "a">> @@ "id-type" :> "doi"

OtherEntry == "id" :> <<"x">> @@ "id-type" :> "issn"

Relations ==
    { <<>>,
      "relation" :> ("has-review" :> <<OtherEntry>>),
      "relation" :> ("is-preprint-of" :> <<>>),
      "relation" :> ("is-preprint-of" :> <<OtherEntry>>),
      "relation" :> ("is-preprint-of" :> <<DoiEntry>>),
      "relation" :> ("is-preprint-of" :> <<OtherEntry, DoiEntry>>) }

Abstracts == { <<>>, "abstract" :> "A0" }

CrossrefAuthors ==
    { << [given |-> John, family |-> Smith], [given |-> Mary, family |-> Jones] >>,
      << [family |-> Consortium], [given |-> John, family |-> Smith],
         [given |-> Mary, family |-> Jones] >> }

CrossrefRecords ==
    { ("title" :> <<"T0">> @@ "posted" :> [date_parts |-> <<<<2020, 6, 15>>>>] @@ "author" :> au)
        @@ rel @@ abs : rel \in Relations, abs \in Abstracts, au \in CrossrefAuthors }

CrossrefResponses == {Raises("ConnectionError")} \cup {Returns(j) : j \in CrossrefRecords}

(***************************************************************************)
(* main.py, lines 57-65: preprint_info                                     *)
(***************************************************************************)
RECURSIVE given_and_family(_)
given_and_family(authors) ==
    IF authors = <<>> THEN <<>>
    ELSE (IF "given" \in DOMAIN Head(authors)
          THEN <<Head(authors).given \o <<" ">> \o Head(authors).family>>
          ELSE <<>>) \o given_and_family(Tail(authors))

build_preprint_info(preprint) ==
    LET date_preprint == preprint["posted"].date_parts[1]
    IN [title |-> preprint["title"][1],
        abstract |-> preprint["abstract"],
        date |-> Join(<<"-">>, [i \in 1..Len(date_preprint) |-> IntToStr(date_preprint[i])]),
        authors |-> Join(<<";", " ">>, given_and_family(preprint["author"]))]

NoInfo == [title |-> "", abstract |-> "", date |-> <<>>, authors |-> <<>>]

(***************************************************************************)
(* The author strings and author lists that reach is_author_correct: those *)
(* of the services above, and every pair of lists within bounds            *)
(***************************************************************************)
AuthorStrings == {Join(<<";", " ">>, given_and_family(au)) : au \in CrossrefAuthors}

AuthorLists == {PubMed[i]["AU"] : i \in {k \in 1..Len(PubMed) : "AU" \in DOMAIN PubMed[k]}}

\* the longest preprint and PubMed author lists
MaxPreprintAuthors == 2

MaxPubmedAuthors == 5

PreprintNames == {John \o <<" ">> \o Smith, Mary \o <<" ">> \o Jones, <<"K", "i", "m", " ", "L", "e", "e">>}

PubmedNames == {SmithJ, JonesM, LeeK}

ListsOf(S, n) == UNION {[1..k -> S] : k \in 0..n}

(***************************************************************************)
(* AuthorSimilarity (utils/similarity.py), AUTHOR_TYPE = 'all'             *)
(***************************************************************************)
\* the threshold 0.9, in tenths
author_threshold == 9

keep_first_and_last_author(authors) == <<authors[1], authors[Len(authors)]>>

\* line 326: [author[0] for author in authors if author]
initials_of(kept) == [i \in 1..Len(kept) |-> <<kept[i][1]>>]

\* lines 324-330, for the list of line 323
surname_first(authors, pos) ==
    LET surname == authors[pos]
        rest == SubSeq(authors, 1, pos - 1) \o SubSeq(authors, pos + 1, Len(authors))
    IN [authors |-> <<surname>> \o rest,
        apre_initials_only |-> Join(<<" ">>, <<surname>> \o initials_of(NonEmpty(rest)))]

\* authors[-1] is the last word
surname_last(authors) == surname_first(authors, Len(authors))

_rearrange_surname_and_initials(authors_str, surname_from_end) ==
    IF surname_from_end THEN surname_last(Split(authors_str, <<" ">>))
    ELSE surname_first(Split(authors_str, <<" ">>), 1)

\* line 344: apre = ' '.join(apre)
joined(r) == [apre |-> Join(<<" ">>, r.authors), apre_initials_only |-> r.apre_initials_only]

__prepare_authors_preprint_all(author_preprint) ==
    joined(_rearrange_surname_and_initials(
               Replace(Replace(Lower(author_preprint), <<".", " ">>, <<" ">>), <<".">>, <<" ">>),
               TRUE))

\* lines 297-300
split_by_comma(apub) ==
    IF Count(apub, ",") >= 1 THEN Join(<<" ">>, Split(apub, <<",", " ">>)) ELSE apub

__to_lower_and_split_by_comma(author_pubmed) == split_by_comma(Lower(author_pubmed))

__prepare_authors_pubmed_all(author_pubmed) == __to_lower_and_split_by_comma(author_pubmed)

__calculate_levenstein_ratio(apre, apub, reversed_apre) ==
    RatioMax(lev_ratio(apre, apub), lev_ratio(reversed_apre, apub))

_is_author_the_same(author_preprint, author_pubmed) ==
    \E p \in {__prepare_authors_preprint_all(author_preprint)} :
    \E apub \in {__prepare_authors_pubmed_all(author_pubmed)} :
    \E reversed_apre \in {Join(<<" ">>, Reversed(SplitWs(p.apre)))} :
    \E levenstein_ratio \in {__calculate_levenstein_ratio(p.apre, apub, reversed_apre)} :
       \/ StartsWith(p.apre, apub)
       \/ StartsWith(apub, p.apre)
       \/ StartsWith(p.apre_initials_only, apub)
       \/ StartsWith(reversed_apre, apub)
       \/ StartsWith(apub, reversed_apre)
       \/ 10 * levenstein_ratio.num > author_threshold * levenstein_ratio.den

\* the author string of the preprint, as a list
SplitAuthors(authors_preprint) == Split(authors_preprint, <<";", " ">>)

\* the names that the services and the lists above supply, and
\* _is_author_the_same on each pair of them, tabulated once
PreprintAuthorStrings ==
    AuthorStrings \cup {Join(<<";", " ">>, l) : l \in ListsOf(PreprintNames, MaxPreprintAuthors)}

AuthorNamePairs ==
    (UNION {Range(SplitAuthors(s)) : s \in PreprintAuthorStrings})
        \X (PubmedNames \cup UNION {Range(l) : l \in AuthorLists})

RECURSIVE SameTable(_)
SameTable(S) ==
    IF S = {} THEN <<>>
    ELSE LET a == CHOOSE x \in S : TRUE
         IN (a :> _is_author_the_same(a[1], a[2])) @@ SameTable(S \ {a})

_is_author_the_same_of == SameTable(AuthorNamePairs)

_is_author_in_list(author_preprint, authors_pubmed) ==
    \E i \in 1..Len(authors_pubmed) :
        _is_author_the_same_of[<<author_preprint, authors_pubmed[i]>>]

_is_first_and_last_author_present_in_another_list(authors_preprint, authors_pubmed) ==
    LET first == authors_preprint[1]
        last == authors_preprint[Len(authors_preprint)]
    IN /\ _is_author_in_list(first, authors_pubmed)
       /\ _is_author_in_list(last, authors_pubmed)

\* zip stops at the shorter list
authors_consensus(authors_preprint, authors_pubmed) ==
    [i \in 1..Min(Len(authors_preprint), Len(authors_pubmed)) |->
        _is_author_the_same_of[<<authors_preprint[i], authors_pubmed[i]>>]]

consensus_first_and_last_authors(authors_preprint, authors_pubmed) ==
    authors_consensus(keep_first_and_last_author(authors_preprint),
                      keep_first_and_last_author(authors_pubmed))

_is_consensus_majority(consensus) ==
    Cardinality({i \in 1..Len(consensus) : consensus[i]})
        > Cardinality({i \in 1..Len(consensus) : ~consensus[i]})

_is_first_n_authors_the_same(consensus, n_authors) ==
    \A i \in 1..Min(n_authors, Len(consensus)) : consensus[i]

\* line 163 read as "consensus[0] == consensus[-1]"
_is_first_and_last_author_of_same_truth(consensus) == consensus[1] = consensus[Len(consensus)]

\* "True is consensus[0] == consensus[-1]" is a chained comparison:
\* (True is consensus[0]) and (consensus[0] == consensus[-1])
_is_first_and_last_author_the_same(consensus) ==
    /\ consensus[1] = TRUE
    /\ consensus[1] = consensus[Len(consensus)]

perform_checks(authors_preprint, authors_pubmed) ==
    LET consensus == authors_consensus(authors_preprint, authors_pubmed)
        consensus_first_last_authors ==
            consensus_first_and_last_authors(authors_preprint, authors_pubmed)
    IN << _is_consensus_majority(consensus),
          _is_first_n_authors_the_same(consensus, 3),
          _is_first_and_last_author_the_same(consensus),
          _is_first_and_last_author_the_same(consensus_first_last_authors) >>

\* line 155 without the move
_leave_first_author_in_place(authors_preprint) == authors_preprint

_move_first_author_to_last_position(authors_preprint) ==
    Tail(authors_preprint) \o <<Head(authors_preprint)>>

\* any(l)
AnyOf(l) == \E i \in 1..Len(l) : l[i]

is_author_correct(authors_preprint_str, authors_pubmed) ==
    IF authors_pubmed = <<>> THEN FALSE
    ELSE
      LET authors_preprint == SplitAuthors(authors_preprint_str)
          rotated == _move_first_author_to_last_position(authors_preprint)
          d == Len(authors_preprint) - Len(authors_pubmed)
      IN IF (IF d < 0 THEN -d ELSE d) > 3 THEN FALSE
         ELSE IF AnyOf(perform_checks(authors_preprint, authors_pubmed)) THEN TRUE
         ELSE IF _is_first_and_last_author_present_in_another_list(authors_preprint, authors_pubmed)
              THEN TRUE
         ELSE IF AnyOf(perform_checks(rotated, authors_pubmed)) THEN TRUE
         ELSE IF _is_first_and_last_author_present_in_another_list(rotated, authors_pubmed)
              THEN TRUE
         ELSE FALSE

\* lines 94 and 102 (perform_checks), 98 and 106 (the first and the last author
\* in the other list): the call, the list it is given and what it returns
call_of(name, authors_preprint, authors_pubmed) ==
    [call |-> name,
     authors_preprint |-> authors_preprint,
     checks |-> IF name = "perform_checks"
                THEN perform_checks(authors_preprint, authors_pubmed)
                ELSE <<_is_first_and_last_author_present_in_another_list(
                           authors_preprint, authors_pubmed)>>]

\* lines 94-111: the calls are made in order, up to the first that succeeds
RECURSIVE calls_up_to_success(_, _)
then_the_rest(made, rest, authors_pubmed) ==
    IF AnyOf(made.checks) THEN <<made>>
    ELSE <<made>> \o calls_up_to_success(rest, authors_pubmed)

calls_up_to_success(plan, authors_pubmed) ==
    IF plan = <<>> THEN <<>>
    ELSE then_the_rest(call_of(Head(plan)[1], Head(plan)[2], authors_pubmed),
                       Tail(plan), authors_pubmed)

\* lines 94-108: the two calls on the list as split, then line 100 moves the
\* first author to the end of that list and the two calls are made again
calls_planned(authors_preprint, rotated) ==
    << <<"perform_checks", authors_preprint>>, <<"first_and_last_present", authors_preprint>>,
       <<"perform_checks", rotated>>, <<"first_and_last_present", rotated>> >>

\* lines 86-92 with a guard of 4 instead of 3
passes_guards_up_to_4(authors_preprint, authors_pubmed) ==
    /\ authors_pubmed # <<>>
    /\ Len(authors_preprint) - Len(authors_pubmed) <= 4
    /\ Len(authors_pubmed) - Len(authors_preprint) <= 4

\* lines 86-92: the guards
passes_guards(authors_preprint, authors_pubmed) ==
    /\ authors_pubmed # <<>>
    /\ Len(authors_preprint) - Len(authors_pubmed) <= 3
    /\ Len(authors_pubmed) - Len(authors_preprint) <= 3

\* the calls that is_author_correct makes, with their values, in order
calls_of_split(authors_preprint, authors_pubmed) ==
    IF passes_guards(authors_preprint, authors_pubmed)
    THEN calls_up_to_success(
             calls_planned(authors_preprint,
                           _move_first_author_to_last_position(authors_preprint)),
             authors_pubmed)
    ELSE <<>>

is_author_correct_calls(authors_preprint_str, authors_pubmed) ==
    calls_of_split(SplitAuthors(authors_preprint_str), authors_pubmed)

(***************************************************************************)
(* The values of is_author_correct and convert_date on the strings that    *)
(* the services above can supply, tabulated once                           *)
(***************************************************************************)
RECURSIVE AuthorTable(_)
AuthorTable(S) ==
    IF S = {} THEN <<>>
    ELSE LET a == CHOOSE x \in S : TRUE
         IN (a :> is_author_correct(a[1], a[2])) @@ AuthorTable(S \ {a})

is_author_correct_of == AuthorTable(AuthorStrings \X AuthorLists)

DateStrings ==
    {build_preprint_info(j @@ "abstract" :> "A0").date : j \in CrossrefRecords}
    \cup {PubMed[i]["EDAT"] : i \in {k \in 1..Len(PubMed) : "EDAT" \in DOMAIN PubMed[k]}}
    \cup {PubMed[i]["PD"] : i \in {k \in 1..Len(PubMed) : "PD" \in DOMAIN PubMed[k]}}

RECURSIVE DateTable(_)
DateTable(S) ==
    IF S = {} THEN <<>>
    ELSE LET d == CHOOSE x \in S : TRUE
         IN (d :> convert_date(d)) @@ DateTable(S \ {d})

convert_date_of == DateTable(DateStrings)

\* r["article"][field] converted, or the exception the expression raises
record_date(r, field) ==
    IF field \in DOMAIN r.article THEN convert_date_of[r.article[field]] ELSE [exc |-> "KeyError"]

\* [r for r in records if date_preprint < convert_date(r["article"][field])]:
\* the list, or the exception of the first record that raises
newer_than(records, date_preprint, dates) ==
    LET bad == {i \in 1..Len(records) : dates[i].exc # "none"}
        first_bad == CHOOSE i \in bad : \A j \in bad : i <= j
        newer == {i \in 1..Len(records) : DateLess(date_preprint, dates[i].val)}
        keep(r) == \E i \in newer : records[i] = r
    IN IF bad # {} THEN [exc |-> dates[first_bad].exc]
       ELSE [exc |-> "none", records |-> SelectSeq(records, keep)]

RECURSIVE record_dates(_, _)
record_dates(records, field) ==
    IF records = <<>> THEN <<>>
    ELSE <<record_date(Head(records), field)>> \o record_dates(Tail(records), field)

filter_by(records, date_preprint, field) ==
    newer_than(records, date_preprint, record_dates(records, field))

\* lines 116-123: the records kept, or the exception that leaves check_pubmed
\* lines 118-121: the PD filter, and all the records when it raises
by_pd_or_all(records, by_pd) ==
    IF by_pd.exc = "none" THEN by_pd ELSE [exc |-> "none", records |-> records]

\* lines 116-121: the EDAT filter, and the PD filter after a KeyError
by_edat_or_pd(records, date_preprint, by_edat) ==
    IF by_edat.exc = "none" THEN by_edat
    ELSE IF by_edat.exc # "KeyError" THEN [exc |-> by_edat.exc]
    ELSE by_pd_or_all(records, filter_by(records, date_preprint, "PD"))

\* lines 115-121 for the date of line 115
filter_from(records, date_preprint) ==
    IF date_preprint.exc # "none" THEN [exc |-> date_preprint.exc]
    ELSE by_edat_or_pd(records, date_preprint.val,
                       filter_by(records, date_preprint.val, "EDAT"))

date_filter(records, date_str) == filter_from(records, convert_date_of[date_str])

(***************************************************************************)
(* State                                                                   *)
(***************************************************************************)
VARIABLES
    pc,              \* the position in main / check_pubmed / is_author_correct
    server,          \* --server
    out,             \* the lines printed by main
    preprint_info,   \* the dict handed to check_pubmed
    author_search,   \* check_pubmed: author_search
    pubmed,          \* check_pubmed: the list of pmids
    records,         \* check_pubmed: the candidates
    found_journal,   \* check_pubmed: <<>> or the candidate chosen by max
    published_info,  \* check_pubmed: published_info, Unbound until assigned
    result,          \* the value returned by check_pubmed
    error,           \* the exception that ended the run, "none" otherwise
    calls,           \* history: the requests sent to the services, in order
    searches,        \* history: the searches and the ids each returned
    unreachable,     \* history: the PubMed request that raised, "none" otherwise
    abstract_calls,  \* history: the pmids whose abstract was compared
    link_reported,   \* history: a lookup returned a link to a publication
    abstract_field,  \* history: the abstract field of the last Crossref record returned
    au_pre,          \* is_author_correct: authors_preprint
    au_pub,          \* is_author_correct: authors_pubmed
    au_ret,          \* is_author_correct: the value returned
    au_calls         \* history: the calls is_author_correct made, in order

vars == <<pc, server, out, preprint_info, author_search, pubmed, records, found_journal,
          published_info, result, error, calls, searches, unreachable, abstract_calls,
          link_reported, abstract_field, au_pre, au_pub, au_ret, au_calls>>

main_vars == <<server, out, link_reported, abstract_field>>

pubmed_vars == <<author_search, pubmed, records, found_journal, published_info, result,
                 searches, unreachable, abstract_calls>>

au_vars == <<au_pre, au_pub, au_ret, au_calls>>

Idle ==
    /\ out = <<>>
    /\ preprint_info = NoInfo
    /\ author_search = FALSE
    /\ pubmed = <<>>
    /\ records = <<>>
    /\ found_journal = <<>>
    /\ published_info = Unbound
    /\ result = PyNone
    /\ error = "none"
    /\ calls = <<>>
    /\ searches = <<>>
    /\ unreachable = "none"
    /\ abstract_calls = {}
    /\ link_reported = FALSE
    /\ abstract_field = "unread"
    /\ au_ret = PyNone
    /\ au_calls = <<>>

Init ==
    /\ pc = "main"
    /\ server \in Servers
    /\ Idle
    /\ au_pre = <<>>
    /\ au_pub = <<>>

Say(fmt, arg) == out' = Append(out, [fmt |-> fmt, arg |-> arg])

Call(api) == calls' = Append(calls, api)

(***************************************************************************)
(* main.py                                                                 *)
(***************************************************************************)
\* lines 33-40: the preprint server is asked first
MainServerLookup ==
    /\ pc = "main"
    /\ server \in {"medrxiv", "biorxiv"}
    /\ \E response \in BioRxivResponses :
         LET journal_article == check_bio_med_rxiv(response)
         IN /\ Call("biorxiv")
            /\ link_reported' = (response.raises = "none" /\ response.json["collection"] # <<>>
                                 /\ response.json["collection"][1]["published"] # NA)
            /\ IF Truthy(journal_article)
               THEN /\ Say("information found in {server}: https://doi.org/{journal_article}",
                           journal_article)
                    /\ pc' = "exit"
               ELSE /\ Say("No publication indexed in {server}. Searching in Crossref:", PyNone)
                    /\ pc' = "crossref"
    /\ UNCHANGED <<server, abstract_field, preprint_info, pubmed_vars, error, au_vars>>

\* line 33 is false for any other server
MainOtherServer ==
    /\ pc = "main"
    /\ server \notin {"medrxiv", "biorxiv"}
    /\ pc' = "crossref"
    /\ UNCHANGED <<main_vars, preprint_info, pubmed_vars, error, calls, au_vars>>

\* the record holds a DOI-typed "is-preprint-of" entry
HasLink(json) ==
    /\ "relation" \in DOMAIN json
    /\ "is-preprint-of" \in DOMAIN json["relation"]
    /\ \E i \in 1..Len(json["relation"]["is-preprint-of"]) :
           json["relation"]["is-preprint-of"][i]["id-type"] = "doi"

AbstractField(response) ==
    IF response.raises # "none" THEN abstract_field
    ELSE IF "abstract" \in DOMAIN response.json THEN "present" ELSE "absent"

\* lines 42-49: Crossref is asked for a relation
MainCrossref ==
    /\ pc = "crossref"
    /\ \E response \in CrossrefResponses :
         LET crossref == check_crossref(response)
         IN /\ Call("crossref")
            /\ link_reported' = (response.raises = "none" /\ HasLink(response.json))
            /\ abstract_field' = AbstractField(response)
            /\ IF crossref.exc # "none"
               THEN pc' = "crash" /\ error' = crossref.exc /\ UNCHANGED out
               ELSE IF Truthy(crossref.val)
               THEN /\ Say("information found in Crossref: {crossref}", crossref.val)
                    /\ pc' = "exit"
                    /\ UNCHANGED error
               ELSE /\ Say("No publication indexed in Crossref. Searching with Pre2Pub (in PubMed):",
                           PyNone)
                    /\ pc' = "get_preprint"
                    /\ UNCHANGED error
    /\ UNCHANGED <<server, preprint_info, pubmed_vars, au_vars>>

\* lines 51-65 and 75-76: the preprint's record is read
MainGetPreprint ==
    /\ pc = "get_preprint"
    /\ \E response \in CrossrefResponses :
         /\ Call("crossref")
         /\ abstract_field' = AbstractField(response)
         /\ IF response.raises # "none"
            THEN pc' = "crash" /\ error' = response.raises /\ UNCHANGED <<out, preprint_info>>
            ELSE IF "abstract" \in DOMAIN response.json
            THEN /\ preprint_info' = build_preprint_info(response.json)
                 /\ pc' = "esearch_title"
                 /\ UNCHANGED <<out, error>>
            ELSE /\ Say("No abstract information available - not able to run Pre2Pub", PyNone)
                 /\ pc' = "exit"
                 /\ UNCHANGED <<preprint_info, error>>
    /\ UNCHANGED <<server, link_reported, pubmed_vars, au_vars>>

(***************************************************************************)
(* utils/search.py: check_pubmed                                           *)
(***************************************************************************)
\* "return v" of check_pubmed
Return(v) == result' = v /\ pc' = "report"

Searched(by, ok, ids) == searches' = Append(searches, [by |-> by, ok |-> ok, ids |-> ids])

\* lines 84-97: the title search
TitleSearch ==
    /\ pc = "esearch_title"
    /\ Call("esearch")
    /\ \E raises \in BOOLEAN, hits \in HitLists :
         IF raises
         THEN /\ Searched("title", FALSE, <<>>)
              /\ unreachable' = "esearch_title"
              /\ Return(PyStr(API_ERROR))
              /\ UNCHANGED <<pubmed, author_search>>
         ELSE /\ pubmed' = esearch_pmids(IdList(hits))
              /\ Searched("title", TRUE, pubmed')
              /\ author_search' = (pubmed' = <<>>)
              /\ pc' = IF pubmed' = <<>> THEN "esearch_author" ELSE "efetch"
              /\ UNCHANGED <<result, unreachable>>
    /\ UNCHANGED <<main_vars, preprint_info, records, found_journal, published_info, error,
                   abstract_calls, au_vars>>

\* lines 98-105 and 166-169: the author search, made when the title search found nothing
AuthorSearch ==
    /\ pc = "esearch_author"
    /\ Call("esearch")
    /\ \E raises \in BOOLEAN, hits \in HitLists :
         IF raises
         THEN /\ Searched("author", FALSE, <<>>)
              /\ unreachable' = "esearch_author"
              /\ Return(PyStr(API_ERROR))
              /\ UNCHANGED pubmed
         ELSE /\ pubmed' = esearch_pmids(IdList(hits))
              /\ Searched("author", TRUE, pubmed')
              /\ IF pubmed' = <<>> THEN Return(PyFalse) ELSE pc' = "efetch" /\ UNCHANGED result
              /\ UNCHANGED unreachable
    /\ UNCHANGED <<main_vars, preprint_info, author_search, records, found_journal,
                   published_info, error, abstract_calls, au_vars>>

\* line 111-113: a candidate with its scores at float()
Candidate(pmid) ==
    [pmid |-> pmid, article |-> Medline(pmid),
     author_check |-> FALSE, title_check |-> 0, abstract_similarity |-> 0]

RECURSIVE Candidates(_)
Candidates(pmids) ==
    IF pmids = <<>> THEN <<>> ELSE <<Candidate(Head(pmids))>> \o Candidates(Tail(pmids))

\* lines 107-113: the records are fetched
Fetch ==
    /\ pc = "efetch"
    /\ Call("efetch")
    /\ \E raises \in BOOLEAN :
         IF raises
         THEN unreachable' = "efetch" /\ Return(PyFalse) /\ UNCHANGED records
         ELSE records' = Candidates(pubmed) /\ pc' = "fetched" /\ UNCHANGED <<result, unreachable>>
    /\ UNCHANGED <<main_vars, preprint_info, author_search, pubmed, found_journal,
                   published_info, error, searches, abstract_calls, au_vars>>

\* lines 128-133
title_checked(preprint, entry) ==
    IF "TI" \in DOMAIN entry.article
    THEN [entry EXCEPT !.title_check = calculate_similarity(preprint.title, entry.article["TI"])]
    ELSE entry

\* lines 136-142
author_checked(preprint, entry) ==
    IF "AU" \in DOMAIN entry.article
    THEN [entry EXCEPT !.author_check =
             is_author_correct_of[<<preprint.authors, entry.article["AU"]>>]]
    ELSE entry

\* lines 126-142: the title check after an author search, the author check otherwise
RECURSIVE checked(_, _, _)
checked(preprint, by_author, kept) ==
    IF kept = <<>> THEN <<>>
    ELSE <<IF by_author THEN title_checked(preprint, Head(kept))
           ELSE author_checked(preprint, Head(kept))>>
         \o checked(preprint, by_author, Tail(kept))

\* lines 144 and 146
\* line 146 without the gate of line 144
abstract_compared_ungated(entry) == "AB" \in DOMAIN entry.article

abstract_compared(entry) == abstract_gate(entry) /\ "AB" \in DOMAIN entry.article

\* lines 143-149: the abstract check of the candidates that pass the gate
RECURSIVE abstract_checked(_, _)
abstract_checked(preprint, entries) ==
    IF entries = <<>> THEN <<>>
    ELSE <<IF abstract_compared(Head(entries))
           THEN [Head(entries) EXCEPT !.abstract_similarity =
                    calculate_similarity(preprint.abstract, Head(entries).article["AB"])]
           ELSE Head(entries)>>
         \o abstract_checked(preprint, Tail(entries))

\* lines 150-165: <<>> or the candidate chosen by max, and published_info
selected(scored) ==
    IF scored = <<>> THEN [found_journal |-> <<>>, published_info |-> Unbound]
    ELSE LET best == max_abstract_similarity(scored)
         IN [found_journal |-> <<best>>,
             published_info |-> IF is_accepted(best)
                                THEN extract_published_info(best.article)
                                ELSE Unbound]

\* lines 116-169: the date filter, the checks, the choice of the best candidate
Resolve ==
    /\ pc = "fetched"
    /\ \E kept \in {date_filter(records, preprint_info.date)} :
         IF kept.exc # "none"
         THEN /\ pc' = "crash"
              /\ error' = kept.exc
              /\ UNCHANGED <<records, abstract_calls, found_journal, published_info, result>>
         ELSE \E entries \in {checked(preprint_info, author_search, kept.records)} :
              \E scored \in {abstract_checked(preprint_info, entries)} :
              \E chosen \in {selected(scored)} :
                /\ records' = scored
                /\ abstract_calls' =
                      {entries[i].pmid :
                          i \in {k \in 1..Len(entries) : abstract_compared(entries[k])}}
                /\ found_journal' = chosen.found_journal
                /\ published_info' = chosen.published_info
                /\ Return(IF chosen.published_info # Unbound
                          THEN chosen.published_info ELSE PyFalse)
                /\ UNCHANGED error
    /\ UNCHANGED <<main_vars, preprint_info, author_search, pubmed, calls, searches,
                   unreachable, au_vars>>

\* main.py, lines 71-74: the value of check_pubmed is reported
MainReport ==
    /\ pc = "report"
    /\ IF Truthy(result)
       THEN Say("Information found by Pre2Pub: {pubmed}", result)
       ELSE Say("No publication found by Pre2Pub.", PyNone)
    /\ pc' = "exit"
    /\ UNCHANGED <<server, link_reported, abstract_field, preprint_info, pubmed_vars, error,
                   calls, au_vars>>

Next ==
    \/ MainServerLookup \/ MainOtherServer \/ MainCrossref \/ MainGetPreprint
    \/ TitleSearch \/ AuthorSearch \/ Fetch \/ Resolve
    \/ MainReport

Spec == Init /\ [][Next]_vars

(***************************************************************************)
(* is_author_correct on its own: every pair of author lists within bounds  *)
(***************************************************************************)
PyBool(b) == [type |-> "bool", val |-> b]

InitAuthors ==
    /\ pc = "is_author_correct"
    /\ server = "other"
    /\ Idle
    /\ au_pre \in {Join(<<";", " ">>, l) : l \in ListsOf(PreprintNames, MaxPreprintAuthors)}
    /\ au_pub \in ListsOf(PubmedNames, MaxPubmedAuthors)

IsAuthorCorrect ==
    /\ pc = "is_author_correct"
    /\ au_ret' = PyBool(is_author_correct(au_pre, au_pub))
    /\ au_calls' = is_author_correct_calls(au_pre, au_pub)
    /\ pc' = "returned"
    /\ UNCHANGED <<main_vars, preprint_info, pubmed_vars, error, calls, au_pre, au_pub>>

NextAuthors == IsAuthorCorrect

SpecAuthors == InitAuthors /\ [][NextAuthors]_vars

(***************************************************************************)
(* Properties                                                              *)
(***************************************************************************)
\* check_pubmed has returned
Returned == pc \in {"report", "exit"} /\ result # PyNone

\* check_pubmed has returned from its last line: the records were fetched and
\* the date filter, the checks and the choice were made
Resolved == Returned /\ unreachable = "none" /\ \E k \in 1..Len(calls) : calls[k] = "efetch"

\* the candidates as fetched, before the date filter
Fetched == Candidates(pubmed)

Pmids(rs) == {rs[i].pmid : i \in 1..Len(rs)}

\* the largest abstract_similarity among the candidates
MaxScore(rs) ==
    CHOOSE m \in {rs[i].abstract_similarity : i \in 1..Len(rs)} :
        \A i \in 1..Len(rs) : rs[i].abstract_similarity <= m

\* a URL of a publication
IsLocator(v) == v.type = "str" /\ (StartsWith(v.val, DOI_URL) \/ StartsWith(v.val, PUBMED_URL))

\* an identifier "<doi> [doi]" and its <doi>
IsDoiTagged(id) == Len(id) >= 6 /\ SubSeq(id, Len(id) - 5, Len(id)) = <<" ", "[", "d", "o", "i", "]">>

DoiOf(id) == SubSeq(id, 1, Len(id) - 6)

\* the locator of an article: the URL of its first DOI-tagged identifier, or
\* else the URL of its PubMed record
LocatorOf(article) ==
    LET aid == IF "AID" \in DOMAIN article THEN article["AID"] ELSE <<>>
        tagged == {k \in 1..Len(aid) : IsDoiTagged(aid[k])}
    IN IF tagged # {}
       THEN PyStr(DOI_URL \o DoiOf(aid[CHOOSE k \in tagged : \A j \in tagged : k <= j]))
       ELSE PyStr(PUBMED_URL \o article["PMID"])

LastLine == out[Len(out)].fmt

\* C1: check_pubmed returns a locator only if the candidate chosen by the
\* maximum abstract_similarity scores at least 0.9; when the maximum is below
\* 0.9 (0.89, say) it returns False although that candidate was the maximum.
C1_AcceptanceThreshold ==
    Returned =>
        /\ IsLocator(result) =>
              /\ Resolved
              /\ found_journal # <<>>
              /\ found_journal[1].abstract_similarity = MaxScore(records)
              /\ found_journal[1].abstract_similarity >= 90
        /\ (Resolved /\ records # <<>> /\ MaxScore(records) < 90) => result = PyFalse

\* the best candidate scores 0.89 and is rejected
C1_Witness ==
    /\ Resolved
    /\ found_journal # <<>>
    /\ found_journal[1].abstract_similarity = 89
    /\ MaxScore(records) = 89
    /\ result = PyFalse

\* C2, as claimed: the abstract is compared only for candidates with a true
\* author_check or a title_check above 0.94, every other candidate keeps the
\* initial 0.0 and is never the candidate chosen by the final max.
C2_Original ==
    Resolved =>
        /\ \A i \in 1..Len(records) :
              /\ records[i].pmid \in abstract_calls =>
                    (records[i].author_check \/ records[i].title_check > 94)
              /\ records[i].pmid \notin abstract_calls => records[i].abstract_similarity = 0
        /\ found_journal # <<>> => found_journal[1].pmid \in abstract_calls

\* C2, amended: the abstract is compared only for candidates with a true
\* author_check or a title_check above 0.94, every other candidate keeps the
\* initial 0.0 and, when max chooses it, it is never accepted: check_pubmed
\* returns False.
C2_GateInvariant ==
    Resolved =>
        /\ \A i \in 1..Len(records) :
              /\ records[i].pmid \in abstract_calls =>
                    (records[i].author_check \/ records[i].title_check > 94)
              /\ records[i].pmid \notin abstract_calls => records[i].abstract_similarity = 0
        /\ (found_journal # <<>> /\ found_journal[1].pmid \notin abstract_calls) =>
              (published_info = Unbound /\ result = PyFalse)

\* no candidate of several passes the gate: max chooses one whose abstract was
\* never compared, and nothing is accepted
C2_Witness ==
    /\ Resolved
    /\ found_journal # <<>>
    /\ found_journal[1].pmid \notin abstract_calls
    /\ "AB" \in DOMAIN found_journal[1].article
    /\ found_journal[1].abstract_similarity = 0
    /\ Len(records) >= 2
    /\ result = PyFalse

\* candidate i of the records kept by the date filter is the one of scenario D:
\* its title is 0.95 similar to the preprint's, its abstract 0.92, no other
\* candidate scored as much, and its identifier list holds a DOI
ScenarioD(i) ==
    /\ "TI" \in DOMAIN records[i].article
    /\ calculate_similarity(preprint_info.title, records[i].article["TI"]) = 95
    /\ "AB" \in DOMAIN records[i].article
    /\ calculate_similarity(preprint_info.abstract, records[i].article["AB"]) = 92
    /\ \A j \in 1..Len(records) : j # i => records[j].abstract_similarity < 92
    /\ "AID" \in DOMAIN records[i].article
    /\ \E k \in 1..Len(records[i].article["AID"]) : IsDoiTagged(records[i].article["AID"][k])

ScenarioDAccepted(i) ==
    /\ records[i].title_check = 95
    /\ records[i].pmid \in abstract_calls
    /\ records[i].abstract_similarity = 92
    /\ found_journal = <<records[i]>>
    /\ result = LocatorOf(records[i].article)

\* C3, as claimed: when the title search returned candidates, a candidate kept
\* by the date filter with title similarity 0.95 and abstract similarity 0.92
\* has its abstract compared because of its title_check and is accepted with
\* the DOI of its identifier list.
C3_Original ==
    (Resolved /\ searches[1].ids # <<>>) =>
        \A i \in 1..Len(records) : ScenarioD(i) => ScenarioDAccepted(i)

\* C3, amended: when the title search returned no candidate and the author
\* search returned some, such a candidate has its abstract compared because of
\* its title_check and is accepted with the DOI of its identifier list.
C3_ScenarioD ==
    (Resolved /\ searches[1].ids = <<>> /\ author_search) =>
        \A i \in 1..Len(records) : ScenarioD(i) => ScenarioDAccepted(i)

\* scenario D after an author search, for a candidate whose authors do not match
C3_Witness ==
    /\ Resolved
    /\ author_search
    /\ \E i \in 1..Len(records) :
          /\ ScenarioD(i)
          /\ ScenarioDAccepted(i)
          /\ ~is_author_correct_of[<<preprint_info.authors, records[i].article["AU"]>>]
    /\ pc = "exit"
    /\ LastLine = "Information found by Pre2Pub: {pubmed}"

\* the date a candidate records: EDAT, or else PD
RecordedDate(c) ==
    IF "EDAT" \in DOMAIN c.article THEN convert_date(c.article["EDAT"])
    ELSE IF "PD" \in DOMAIN c.article THEN convert_date(c.article["PD"])
    ELSE [exc |-> "KeyError"]

\* the candidate's date is known and not after the preprint's
NotNewer(c) ==
    /\ RecordedDate(c).exc = "none"
    /\ ~DateLess(convert_date(preprint_info.date).val, RecordedDate(c).val)

\* C4: a candidate whose recorded date is not strictly after the preprint's
\* posted date is removed by the date filter, whatever the date fields of the
\* other candidates, and is never the accepted result.
C4_DateExclusion ==
    Resolved =>
        \A i \in 1..Len(Fetched) :
            NotNewer(Fetched[i]) =>
                /\ Fetched[i].pmid \notin Pmids(records)
                /\ (found_journal # <<>> /\ published_info # Unbound) =>
                       found_journal[1].pmid # Fetched[i].pmid

\* neither EDAT nor PD gives the candidate a date
Undated(c) ==
    /\ "EDAT" \in DOMAIN c.article => convert_date(c.article["EDAT"]).exc # "none"
    /\ "PD" \in DOMAIN c.article => convert_date(c.article["PD"]).exc # "none"

\* the date filter has been applied, or has raised
Filtered ==
    /\ pc \in {"crash", "report", "exit"}
    /\ unreachable = "none"
    /\ \E k \in 1..Len(calls) : calls[k] = "efetch"

\* C5: a candidate whose EDAT and PD are missing or do not parse is kept by the
\* date filter, and the resolution goes on to the checks instead of ending
\* with an error.
C5_FailOpen ==
    Filtered =>
        \A i \in 1..Len(Fetched) :
            Undated(Fetched[i]) =>
                /\ error = "none"
                /\ pc # "crash"
                /\ Fetched[i].pmid \in Pmids(records)

\* C6: when the title search, the author search or the fetch does not reach
\* PubMed, main reports neither "not found" nor a found publication.
C6_Unavailable ==
    (pc = "exit" /\ unreachable # "none") =>
        /\ LastLine # "No publication found by Pre2Pub."
        /\ ~(LastLine = "Information found by Pre2Pub: {pubmed}" /\ IsLocator(out[Len(out)].arg))
        /\ result = PyStr(API_ERROR)

\* C7: an accepted candidate yields the URL of its first DOI-tagged
\* identifier, or the URL of its PubMed record when it has none (AID absent,
\* empty or without a DOI); never False and never a value that is not a URL.
C7_Locator ==
    (Resolved /\ found_journal # <<>> /\ found_journal[1].abstract_similarity >= 90) =>
        /\ result = LocatorOf(found_journal[1].article)
        /\ IsLocator(result)

\* the searches are over: check_pubmed is past line 105
SearchesOver == pc \in {"efetch", "fetched", "crash", "report", "exit"} /\ searches # <<>>

AuthorSearchIssued == \E k \in 1..Len(searches) : searches[k].by = "author"

TitleSearchEmpty == searches # <<>> /\ searches[1].by = "title" /\ searches[1].ok /\ searches[1].ids = <<>>

\* C8: the author search is made if and only if the title search completed
\* with no candidate; the candidates are those of one search only, at most
\* retmax = 5 of them; when the author search finds none either, check_pubmed
\* returns False without a fetch and without an error.
C8_SearchFallback ==
    /\ AuthorSearchIssued => TitleSearchEmpty
    /\ SearchesOver => (AuthorSearchIssued <=> TitleSearchEmpty)
    /\ Len(searches) <= 2
    /\ (searches # <<>> /\ searches[Len(searches)].ok) => pubmed = searches[Len(searches)].ids
    /\ Len(pubmed) <= 5
    /\ \A k \in 1..Len(searches) : Len(searches[k].ids) <= 5
    /\ (Len(searches) = 2 /\ searches[2].ok /\ searches[2].ids = <<>>) =>
          /\ pc \in {"report", "exit"}
          /\ result = PyFalse
          /\ error = "none"
          /\ \A k \in 1..Len(calls) : calls[k] # "efetch"
          /\ pc = "exit" => LastLine = "No publication found by Pre2Pub."

\* both searches found nothing and main reports "not found"
C8_Witness ==
    /\ Len(searches) = 2
    /\ searches[1].ok /\ searches[1].ids = <<>>
    /\ searches[2].by = "author" /\ searches[2].ok /\ searches[2].ids = <<>>
    /\ pc = "exit"
    /\ LastLine = "No publication found by Pre2Pub."

\* C9: when neither lookup reports a link and the preprint's record has no
\* abstract field, the run ends with "missing abstract", without a search and
\* without an error.
C9_MissingAbstract ==
    (pc \in {"exit", "crash"} /\ ~link_reported /\ abstract_field = "absent") =>
        /\ error = "none"
        /\ pc = "exit"
        /\ LastLine = "No abstract information available - not able to run Pre2Pub"
        /\ \A k \in 1..Len(calls) : calls[k] # "esearch"

\* C10: is_author_correct is false for the empty preprint author string
\* against every non-empty PubMed list, and false for every preprint author
\* string against the empty PubMed list.
C10_EmptyNeverMatches ==
    (pc = "returned" /\ (au_pub = <<>> \/ au_pre = <<>>)) => au_ret = PyBool(FALSE)

\* is_author_correct has returned
AuthorsReturned == pc = "returned"

\* the preprint's author list, as is_author_correct splits it (line 89)
PreprintList == SplitAuthors(au_pre)

\* by how much the lengths of the two lists differ
LengthsDiffer ==
    IF Len(PreprintList) >= Len(au_pub) THEN Len(PreprintList) - Len(au_pub)
    ELSE Len(au_pub) - Len(PreprintList)

\* C11: when the lengths of the preprint list (the author string split at
\* "; ") and of the PubMed list differ by more than 3, is_author_correct
\* returns False whatever the names, without a call that compares names; lists
\* whose lengths differ by 3 or less pass the guard: the comparisons are made.
C11_LengthGuard ==
    AuthorsReturned =>
        /\ LengthsDiffer > 3 => (au_ret = PyBool(FALSE) /\ au_calls = <<>>)
        /\ (LengthsDiffer <= 3 /\ au_pub # <<>>) =>
              (au_calls # <<>> /\ au_calls[1].call = "perform_checks")

\* a PubMed list four names longer, whose first name is the preprint's first
\* author, is rejected without a comparison
C11_Witness ==
    /\ AuthorsReturned
    /\ LengthsDiffer = 4
    /\ _is_author_the_same_of[<<PreprintList[1], au_pub[1]>>]
    /\ au_ret = PyBool(FALSE)
    /\ au_calls = <<>>

\* the calls of perform_checks that were made
ChecksMade == {k \in 1..Len(au_calls) : au_calls[k].call = "perform_checks"}

\* the pairwise consensus of the k-th call, and that of the first and last authors only
ConsensusOf(k) == authors_consensus(au_calls[k].authors_preprint, au_pub)

FirstLastConsensusOf(k) == consensus_first_and_last_authors(au_calls[k].authors_preprint, au_pub)

BothEnds(consensus) == consensus[1] /\ consensus[Len(consensus)]

NeitherEnd(consensus) == ~consensus[1] /\ ~consensus[Len(consensus)]

\* C12, as claimed: rule (c) holds exactly when the first and the last position
\* of the consensus are both matches or both mismatches, so a consensus whose
\* first and last positions are both mismatches satisfies rule (c), and rule (d)
\* on the consensus of the first and last authors, and is_author_correct
\* returns True.
C12_Original ==
    AuthorsReturned =>
        \A k \in ChecksMade :
            /\ au_calls[k].checks[3] <=> (BothEnds(ConsensusOf(k)) \/ NeitherEnd(ConsensusOf(k)))
            /\ au_calls[k].checks[4] <=>
                  (BothEnds(FirstLastConsensusOf(k)) \/ NeitherEnd(FirstLastConsensusOf(k)))
            /\ NeitherEnd(ConsensusOf(k)) => au_ret = PyBool(TRUE)

\* C12, amended: rule (c) holds exactly when the first and the last position of
\* the consensus are both matches, and rule (d) exactly when both positions of
\* the consensus of the first and last authors are; a consensus whose first and
\* last positions are both mismatches does not satisfy rule (c); one whose
\* first and last positions both match does, and is_author_correct returns True.
C12_BothMatch ==
    AuthorsReturned =>
        \A k \in ChecksMade :
            /\ au_calls[k].checks[3] <=> BothEnds(ConsensusOf(k))
            /\ au_calls[k].checks[4] <=> BothEnds(FirstLastConsensusOf(k))
            /\ NeitherEnd(ConsensusOf(k)) => ~au_calls[k].checks[3]
            /\ BothEnds(ConsensusOf(k)) => au_ret = PyBool(TRUE)

\* two authors against two others: both positions mismatch, neither rule (c)
\* nor rule (d) holds, and is_author_correct returns False
C12_Witness ==
    /\ AuthorsReturned
    /\ au_calls # <<>>
    /\ Len(ConsensusOf(1)) = 2
    /\ NeitherEnd(ConsensusOf(1))
    /\ NeitherEnd(FirstLastConsensusOf(1))
    /\ ~au_calls[1].checks[3]
    /\ ~au_calls[1].checks[4]
    /\ au_ret = PyBool(FALSE)

\* the lists pass the guards of lines 86-92
GuardsPassed == au_pub # <<>> /\ LengthsDiffer <= 3

\* l is the list orig with its first member moved to the end: the same
\* members, the others in their order
IsRotationOf(l, orig) ==
    /\ Len(l) = Len(orig)
    /\ l[Len(l)] = orig[1]
    /\ \A i \in 1..(Len(orig) - 1) : l[i] = orig[i + 1]

\* the k-th call succeeded
Succeeded(k) == AnyOf(au_calls[k].checks)

Tied == {i \in 1..Len(records) : records[i].abstract_similarity = MaxScore(records)}

\* the place of a candidate in the result of the search
PlaceOf(pmid) == CHOOSE k \in 1..Len(pubmed) : pubmed[k] = pmid

\* the candidates are in the order of the search result
InSearchOrder ==
    \A i, j \in 1..Len(records) :
        i < j => PlaceOf(records[i].pmid) < PlaceOf(records[j].pmid)

\* C14: when several candidates left by the date filter share the largest
\* abstract_similarity, the one chosen is the one that comes first in the
\* search result, and with a tie at 0.9 or more the locator returned is that
\* of the earliest of the tied candidates.
C14_TieBreak ==
    (Resolved /\ records # <<>>) =>
        /\ InSearchOrder
        /\ \E first \in Tied :
              /\ \A i \in Tied : PlaceOf(records[first].pmid) <= PlaceOf(records[i].pmid)
              /\ found_journal = <<records[first]>>
              /\ (MaxScore(records) >= accept_threshold /\ IsLocator(result)) =>
                    result = LocatorOf(records[first].article)

\* two candidates with different locators are tied at 0.9 or more, and the
\* locator returned is that of the one the search gave first
C14_Witness ==
    /\ Resolved
    /\ records # <<>>
    /\ MaxScore(records) >= accept_threshold
    /\ IsLocator(result)
    /\ \E i, j \in Tied :
          /\ PlaceOf(records[i].pmid) < PlaceOf(records[j].pmid)
          /\ LocatorOf(records[i].article) # LocatorOf(records[j].article)
          /\ result = LocatorOf(records[i].article)
====
